---- MODULE Spec2Model ----
(***************************************************************************)
(* A model of the push-based FRP runtime of railworks-tstl-template:       *)
(* the stream combinators of lib/frp.ts, the callback registry FrpList and *)
(* the entity lifecycle of lib/frp-entity.ts (and its second revision,     *)
(* which releases host updates inside activateUpdatesEveryFrame), and the  *)
(* host callbacks of lib/frp-vehicle.ts.                                   *)
(*                                                                         *)
(* Streams and callbacks are closures in the source; here they are         *)
(* records.  A stream is [s |-> kind, ...] and subscribing to it is the    *)
(* operator Subscribe; a callback is [k |-> kind, ...] and calling it is   *)
(* the operator Invoke.  Every host callback is one action that runs the   *)
(* whole synchronous call stack of the handler on a record `st` of the     *)
(* mutable state and commits the result.                                   *)
(*                                                                         *)
(* The derived combinators of frp-extra.ts and the polling and authority  *)
(* streams of FrpVehicle are exercised by a second specification,          *)
(* SpecStreams, whose constructor arguments build one pipeline each and    *)
(* observe it with callbacks that keep what they receive (`outs`), while   *)
(* the host's getters (`host`) change between callbacks.                   *)
(*                                                                         *)
(* The host's global callback slots and the script's calls of setup() are *)
(* the subject of a third specification, SpecSetup, which starts from      *)
(* empty slots.                                                            *)
(*                                                                         *)
(* Simulated time is kept in milliseconds (GetSimulationTime() returns     *)
(* seconds, so the source's `time > 0.5` reads `time > 500` here).         *)
(***************************************************************************)
EXTENDS Integers, Sequences, FiniteSets, TLC

VARIABLES
    entityRev,           \* "lib": src/lib/frp-entity.ts; "alt": the second revision
    isVehicle,           \* TRUE: the object is an FrpVehicle, FALSE: a plain FrpEntity
    userInit,            \* the constructor argument: onInit / onInitAndSettled
    initialised,         \* the host has invoked Initialise
    simTime,             \* the host's simulated clock, in ms
    updatingEveryFrame,  \* FrpEntity.updatingEveryFrame
    requested,           \* host side: a per-frame Update request is outstanding
    nexts,               \* FrpList.nexts of each of the entity's lists
    hubs,                \* the closure state of each hub: nexts, isStarted
    cells,               \* the closure-local accumulators of fold subscriptions
    via,                 \* per user callback id: the stream it was subscribed to
    trace,               \* what the last host callback did, in order
    host,                \* what the host's getters return: speed, player, cv, ...
    behaviors,           \* per stepper behavior of the user: its cell (0: not made)
    outs,                \* per user callback id: what a recording callback received
    slots,               \* the host's global callback slots: the handlers each runs
    setupCalls           \* how often setup() has been called on the object

vars == <<entityRev, isVehicle, userInit, initialised, simTime, updatingEveryFrame,
          requested, nexts, hubs, cells, via, trace, host, behaviors, outs,
          slots, setupCalls>>

----------------------------------------------------------------------------
(* Bounds of the model.                                                    *)

\* longest user initialisation program (operations run by the constructor
\* argument)
MaxInitOps == 2

\* most user callbacks ever created (the lists only grow, so this caps them)
MaxLeaves == 3

\* most values a recording callback keeps (the host callbacks stop there)
MaxOuts == 3

\* most recording callbacks ever created
MaxSpies == 5

\* most calls of setup() on the object
MaxSetupCalls == 2

(* Program constants.                                                      *)

\* frp-vehicle.ts:94 `time > 0.5`, in ms
SettleMs == 500

\* the clock readings the host may report, in ms
ClockReadings == {0, 400, 600}

\* the clock readings of the stream scenarios, in ms
StreamClockReadings == {0, 100, 400, 600, 800}

\* throttle(ms): the interval of the throttled stream of the scenarios, in ms
ThrottleMs == 300

\* c.stopSpeed of frp-vehicle.ts:171-172, in the unit of SpeedReadings
stopSpeed == 1

\* what RailVehicle.GetSpeed may return: inside, on and outside the dead-band
SpeedReadings == {-2, -1, 1, 2}

\* what RailVehicle.GetControlValue may return: number | undefined
Undefined == [some |-> FALSE, val |-> 0]
Defined(x) == [some |-> TRUE, val |-> x]
CvReadings == {Undefined, Defined(0), Defined(1)}

\* the host's getters when the object is constructed
HostAtStart ==
    [speed |-> 1, player |-> FALSE, cv |-> Undefined, reset |-> FALSE,
     front |-> TRUE, rear |-> FALSE]

HostReadings(field) ==
    CASE field = "speed" -> SpeedReadings
      [] field = "player" -> BOOLEAN
      [] field = "cv" -> CvReadings
      [] field = "reset" -> BOOLEAN

\* the names of the stepper behaviors user code may create
BehaviorNames == {"direction", "last"}

Lists == {"update", "cv", "msg", "cam"}
PayloadLists == {"cv", "msg", "cam"}

\* rw.CameraEnterView / rw.CameraEnterCabEnd, the arguments of OnCameraEnter
CameraEnterViews == {"Cab", "Carriage"}
CameraEnterCabEnds == {"Front", "Rear"}

----------------------------------------------------------------------------
(* Streams, as data.                                                       *)

ListStream(l) == [s |-> "list", l |-> l]
MapStream(f, up) == [s |-> "map", f |-> f, up |-> up]
FilterStream(p, up) == [s |-> "filter", p |-> p, up |-> up]
FoldStream(step, initial, up) == [s |-> "fold", step |-> step, initial |-> initial, up |-> up]
HubStream(h, up) == [s |-> "hub", h |-> h, up |-> up]
RejectStream(p, up) == [s |-> "reject", p |-> p, up |-> up]
ThrottleStream(ms, up) == [s |-> "throttle", ms |-> ms, up |-> up]
FoldResetStream(step, initial, reset, up) ==
    [s |-> "foldReset", step |-> step, initial |-> initial, reset |-> reset, up |-> up]
MergeStream(a, b) == [s |-> "merge", a |-> a, b |-> b]
BindStream(f, up) == [s |-> "bind", f |-> f, up |-> up]

(* Behaviors, as data: a function of the host (() => rv.GetIsPlayer()),    *)
(* the function returned by stepper, or the function returned by liftN.    *)
HostB(field) == [b |-> "host", field |-> field]
StepperB(name) == [b |-> "stepper", name |-> name]
LiftB(combine, args) == [b |-> "lift", combine |-> combine, args |-> args]

\* the name under which a user subscription is remembered in `via`
StreamTag(stream) == IF stream.s = "list" THEN stream.l ELSE stream.s

(* User code, as data: a program is a sequence of operations, each a call  *)
(* of activateUpdatesEveryFrame or a subscription of a new user callback   *)
(* (which itself runs a program whenever it is called).                    *)

Activate(b) == [op |-> "activate", b |-> b]
Sub(stream, prog) == [op |-> "sub", s |-> stream, prog |-> prog]
\* const b = frp.stepper(stream, initial)
Stepper(name, stream, initial) ==
    [op |-> "stepper", b |-> name, s |-> stream, initial |-> initial]
\* const authority$ = this.createAuthorityStream()
CreateAuthority == [op |-> "createAuthorityStream"]
\* the first statement of a recording callback: received.push(value)
Record == [op |-> "record"]
Records(prog) == Len(prog) > 0 /\ prog[1].op = "record"

\* the user's value transform of the composed streams below: x => x + 1
\* (the values are clock readings)
ApplyTransform(f, value) ==
    CASE f = "inc" -> value + 1
      [] f = "gt05" -> value > SettleMs

\* frp-extra.ts fsm: (accum, value) => [accum[1], value]
ApplyStep_BandExcluded(step, accum, value) ==
    CASE step = "fsm" -> <<accum[2], value>>
      [] step = "sum" -> accum + value
      [] step = "direction" ->
            IF value >= stopSpeed THEN "Forward"
            ELSE IF value <= -stopSpeed THEN "Backward"
            ELSE accum

\* (sum, x) => sum + x is the user's;
\* frp-vehicle.ts:170-178 is the direction fold of createAuthorityStream
ApplyStep(step, accum, value) ==
    CASE step = "fsm" -> <<accum[2], value>>
      [] step = "sum" -> accum + value
      [] step = "direction" ->
            IF value > stopSpeed THEN "Forward"
            ELSE IF value < -stopSpeed THEN "Backward"
            ELSE accum

\* the user's valueToEvent of bind: _ => this.createUpdateStream()
ApplyValueToEvent(f, value) ==
    CASE f = "update" -> ListStream("update")

\* frp-vehicle.ts:96 state => !state[0] && state[1]
ApplyPredicate_Level(p, value) ==
    CASE p = "rising" -> value[2]
      [] p = "undefined" -> ~value.some

\* frp-extra.ts rejectUndefined: value => value === undefined
ApplyPredicate(p, value) ==
    CASE p = "rising" -> (~value[1]) /\ value[2]
      [] p = "undefined" -> ~value.some

\* frp-vehicle.ts:184-190, the combine function of the authority behavior
VehicleAuthority_MovingFirst(direction, isPlayer) ==
    CASE direction = "Forward" -> "IsAiMovingForward"
      [] direction = "Backward" -> "IsAiMovingBackward"
      [] direction = "None" -> IF isPlayer THEN "IsPlayer" ELSE "IsAiParked"

VehicleAuthority(direction, isPlayer) ==
    IF isPlayer THEN "IsPlayer"
    ELSE CASE direction = "Forward" -> "IsAiMovingForward"
           [] direction = "None" -> "IsAiParked"
           [] direction = "Backward" -> "IsAiMovingBackward"

Combine(combine, values) ==
    CASE combine = "authority" -> VehicleAuthority(values[1], values[2])

RECURSIVE snapshot(_, _)

(* frp.snapshot: behavior instanceof Function ? behavior() : behavior, and *)
(* frp.liftN: combine(...behaviors.map(snapshot))                          *)
snapshot(behavior, st) ==
    CASE behavior.b = "host" -> st.host[behavior.field]
      [] behavior.b = "stepper" -> st.cells[st.behs[behavior.name]]
      [] behavior.b = "lift" ->
            Combine(behavior.combine,
                    [i \in DOMAIN behavior.args |-> snapshot(behavior.args[i], st)])

\* frp-vehicle.ts:180-192: liftN(..., stepper(direction$, None), GetIsPlayer)
authority == LiftB("authority", <<StepperB("direction"), HostB("player")>>)

(* The value transforms that read the host or a behavior:                  *)
(* frp-vehicle.ts:142, 154-157, 168, 192 and the user's reading of `last`  *)
Transform(f, value, st) ==
    CASE f \in {"inc", "gt05"} -> ApplyTransform(f, value)
      [] f = "GetControlValue" -> st.host.cv
      [] f = "SendConsistMessage" -> <<st.host.front, st.host.rear>>
      [] f = "GetSpeed" -> st.host.speed
      [] f = "GetIsPlayer" -> st.host.player
      [] f = "authority" -> snapshot(authority, st)
      [] f = "last" -> snapshot(StepperB("last"), st)

\* the calls of host capabilities a transform makes, in order
HostCalls(f) ==
    CASE f = "GetControlValue" -> << [e |-> "host", call |-> "GetControlValue", dir |-> ""] >>
      [] f = "SendConsistMessage" ->
            << [e |-> "host", call |-> "SendConsistMessage", dir |-> "Forward"],
               [e |-> "host", call |-> "SendConsistMessage", dir |-> "Backward"] >>
      [] f = "GetSpeed" -> << [e |-> "host", call |-> "GetSpeed", dir |-> ""] >>
      [] OTHER -> << >>

----------------------------------------------------------------------------
(* The host capability: BeginUpdate / EndUpdate.                           *)

Log(st, ev) == [st EXCEPT !.trace = Append(@, ev)]

BeginUpdate(st) ==
    [Log(st, [e |-> "BeginUpdate", was |-> st.req]) EXCEPT !.req = TRUE]

EndUpdate(st) ==
    [Log(st, [e |-> "EndUpdate", was |-> st.req]) EXCEPT !.req = FALSE]

(* FrpEntity.activateUpdatesEveryFrame, src/lib/frp-entity.ts              *)
activateUpdatesEveryFrame_lib(everyFrame, st) ==
    LET s0 == Log(st, [e |-> "activate", b |-> everyFrame, was |-> st.flag])
        s1 == IF (~s0.flag) /\ everyFrame THEN BeginUpdate(s0) ELSE s0
    IN  [s1 EXCEPT !.flag = everyFrame]

(* FrpEntity.activateUpdatesEveryFrame, second revision                    *)
activateUpdatesEveryFrame_alt(everyFrame, st) ==
    LET s0 == Log(st, [e |-> "activate", b |-> everyFrame, was |-> st.flag])
        s1 == IF (~s0.flag) /\ everyFrame THEN BeginUpdate(s0)
              ELSE IF s0.flag /\ ~everyFrame THEN EndUpdate(s0)
              ELSE s0
    IN  [s1 EXCEPT !.flag = everyFrame]

activateUpdatesEveryFrame(everyFrame, st) ==
    IF st.rev = "lib" THEN activateUpdatesEveryFrame_lib(everyFrame, st)
    ELSE activateUpdatesEveryFrame_alt(everyFrame, st)

----------------------------------------------------------------------------
(* Subscribing to a stream and calling a callback.                         *)

RECURSIVE Subscribe(_, _, _), Invoke(_, _, _), Run(_, _), callFrom(_, _, _, _),
          callDownFrom(_, _, _, _), forEachFrom(_, _, _, _, _),
          forEachLiveFrom(_, _, _, _)

(* FrpList.createStream: next => { this.nexts.push(next) }                 *)
createStream(l, next, st) ==
    [st EXCEPT !.nexts[l] = Append(@, next)]

(* frp.map: the stream subscribes a transforming callback upstream         *)
map_Memoized(valueTransform, eventStream, next, st) ==
    IF \E l \in DOMAIN st.nexts : \E i \in DOMAIN st.nexts[l] :
          st.nexts[l][i].k = "map" /\ st.nexts[l][i].f = valueTransform
    THEN st
    ELSE Subscribe(eventStream, [k |-> "map", f |-> valueTransform, next |-> next], st)

map(valueTransform, eventStream, next, st) ==
    Subscribe(eventStream, [k |-> "map", f |-> valueTransform, next |-> next], st)

(* frp.filter                                                              *)
filter(predicate, eventStream, next, st) ==
    Subscribe(eventStream, [k |-> "filter", p |-> predicate, next |-> next], st)

(* frp.fold: `let accumulated = initial` is a fresh cell per subscription  *)
fold_SharedAccumulator(step, initial, eventStream, next, st) ==
    LET same == { i \in DOMAIN st.nexts["update"] :
                    st.nexts["update"][i].k = "fold" /\ st.nexts["update"][i].step = step }
    IN  IF same = {}
        THEN LET s0 == [st EXCEPT !.cells = Append(@, initial)]
             IN  Subscribe(eventStream,
                           [k |-> "fold", cell |-> Len(s0.cells), step |-> step,
                            next |-> next], s0)
        ELSE Subscribe(eventStream,
                       [k |-> "fold",
                        cell |-> st.nexts["update"][CHOOSE i \in same : TRUE].cell,
                        step |-> step, next |-> next], st)

fold(step, initial, eventStream, next, st) ==
    LET s0 == [st EXCEPT !.cells = Append(@, initial)]
    IN  Subscribe(eventStream,
                  [k |-> "fold", cell |-> Len(s0.cells), step |-> step, next |-> next],
                  s0)

(* frp.hub: push, then subscribe upstream unless started                   *)
hub_StartedLate(h, eventStream, next, st) ==
    LET s0 == [st EXCEPT !.hubs[h].nexts = Append(@, next)]
    IN  IF ~s0.hubs[h].isStarted
        THEN LET s1 == Subscribe(eventStream, [k |-> "hub", h |-> h],
                                 [s0 EXCEPT !.hubs[h].srcSubs = @ + 1])
             IN  [s1 EXCEPT !.hubs[h].isStarted = (s1.hubs[h].srcSubs >= 2)]
        ELSE s0

hub(h, eventStream, next, st) ==
    LET s0 == [st EXCEPT !.hubs[h].nexts = Append(@, next)]
    IN  IF ~s0.hubs[h].isStarted
        THEN LET s1 == Subscribe(eventStream, [k |-> "hub", h |-> h],
                                 [s0 EXCEPT !.hubs[h].srcSubs = @ + 1])
             IN  [s1 EXCEPT !.hubs[h].isStarted = TRUE]
        ELSE s0

(* frp.bind: the stream subscribes a callback that subscribes `next` to    *)
(* valueToEvent(value)                                                     *)
bind(valueToEvent, eventStream, next, st) ==
    Subscribe(eventStream, [k |-> "bind", f |-> valueToEvent, next |-> next], st)

(* frp.reject                                                              *)
reject(predicate, eventStream, next, st) ==
    Subscribe(eventStream, [k |-> "reject", p |-> predicate, next |-> next], st)

(* frp.throttle: `let last = 0` is a fresh cell per subscription           *)
throttle(ms, eventStream, next, st) ==
    LET s0 == [st EXCEPT !.cells = Append(@, 0)]
    IN  Subscribe(eventStream,
                  [k |-> "throttle", cell |-> Len(s0.cells), ms |-> ms, next |-> next],
                  s0)

(* frp-extra.ts foldWithResetBehavior: `let accumulated = initial`         *)
foldWithResetBehavior(step, initial, reset, eventStream, next, st) ==
    LET s0 == [st EXCEPT !.cells = Append(@, initial)]
    IN  Subscribe(eventStream,
                  [k |-> "foldReset", cell |-> Len(s0.cells), step |-> step,
                   initial |-> initial, reset |-> reset, next |-> next],
                  s0)

(* frp.merge: eventStreamA(value => next(value)); then eventStreamB(...)   *)
merge_SecondFirst(eventStreamA, eventStreamB, next, st) ==
    Subscribe(eventStreamA, [k |-> "merge", side |-> "a", next |-> next],
              Subscribe(eventStreamB, [k |-> "merge", side |-> "b", next |-> next], st))

merge(eventStreamA, eventStreamB, next, st) ==
    Subscribe(eventStreamB, [k |-> "merge", side |-> "b", next |-> next],
              Subscribe(eventStreamA, [k |-> "merge", side |-> "a", next |-> next], st))

(* frp.stepper: `let valueAtLastStep = initial`, then the stream is        *)
(* subscribed at once; the returned behavior reads the cell                *)
stepper_Unsubscribed(name, eventStream, initial, st) ==
    LET s0 == [st EXCEPT !.cells = Append(@, initial)]
    IN  [s0 EXCEPT !.behs[name] = Len(s0.cells)]

stepper(name, eventStream, initial, st) ==
    LET s0 == [st EXCEPT !.cells = Append(@, initial)]
        s1 == [s0 EXCEPT !.behs[name] = Len(s0.cells)]
    IN  Subscribe(eventStream, [k |-> "stepper", cell |-> Len(s0.cells)], s1)

Subscribe(stream, next, st) ==
    CASE stream.s = "list" -> createStream(stream.l, next, st)
      [] stream.s = "map" -> map(stream.f, stream.up, next, st)
      [] stream.s = "filter" -> filter(stream.p, stream.up, next, st)
      [] stream.s = "fold" -> fold(stream.step, stream.initial, stream.up, next, st)
      [] stream.s = "hub" -> hub(stream.h, stream.up, next, st)
      [] stream.s = "reject" -> reject(stream.p, stream.up, next, st)
      [] stream.s = "throttle" -> throttle(stream.ms, stream.up, next, st)
      [] stream.s = "foldReset" ->
            foldWithResetBehavior(stream.step, stream.initial, stream.reset,
                                  stream.up, next, st)
      [] stream.s = "merge" -> merge(stream.a, stream.b, next, st)
      [] stream.s = "bind" -> bind(stream.f, stream.up, next, st)

\* frp-vehicle.ts:167-179: direction$
DirectionS ==
    FoldStream("direction", "None", MapStream("GetSpeed", ListStream("update")))

(* FrpVehicle.createAuthorityStream: the call builds direction$ and the    *)
(* stepper over it; the stream it returns is AuthorityS                    *)
createAuthorityStream(st) == stepper("direction", DirectionS, "None", st)

(* One operation of user code.                                             *)
Exec(op, st) ==
    CASE op.op = "activate" -> activateUpdatesEveryFrame(op.b, st)
      [] op.op = "stepper" -> stepper(op.b, op.s, op.initial, st)
      [] op.op = "createAuthorityStream" -> createAuthorityStream(st)
      [] op.op = "record" -> st
      [] op.op = "sub" ->
            LET id == Len(st.via) + 1
                s0 == Log(st, [e |-> "sub", id |-> id, tag |-> StreamTag(op.s)])
            IN  Subscribe(op.s, [k |-> "user", id |-> id, prog |-> op.prog],
                          [s0 EXCEPT !.via = Append(@, StreamTag(op.s)),
                                     !.outs = Append(@, [spy |-> Records(op.prog),
                                                         got |-> << >>])])

Run(prog, st) ==
    IF Len(prog) = 0 THEN st ELSE Run(Tail(prog), Exec(Head(prog), st))

(* frp.map callback: next(valueTransform(value)); the trace records the    *)
(* call of the user's transform                                            *)
map_next(cb, value, st) ==
    LET s0 == Log(st, [e |-> "transform", f |-> cb.f, v |-> value])
    IN  Invoke(cb.next, Transform(cb.f, value, st),
               [s0 EXCEPT !.trace = @ \o HostCalls(cb.f)])

(* frp.filter callback                                                     *)
filter_next(cb, value, st) ==
    IF ApplyPredicate(cb.p, value) THEN Invoke(cb.next, value, st) ELSE st

(* frp.fold callback: next((accumulated = step(accumulated, value)))       *)
fold_next_EmitsPrevious(cb, value, st) ==
    LET acc == ApplyStep(cb.step, st.cells[cb.cell], value)
    IN  Invoke(cb.next, st.cells[cb.cell], [st EXCEPT !.cells[cb.cell] = acc])

fold_next(cb, value, st) ==
    LET acc == ApplyStep(cb.step, st.cells[cb.cell], value)
    IN  Invoke(cb.next, acc, [st EXCEPT !.cells[cb.cell] = acc])

(* Array.prototype.forEach: the range is fixed when the loop starts        *)
forEachFrom(h, i, n, value, st) ==
    IF i > n THEN st
    ELSE forEachFrom(h, i + 1, n, value, Invoke(st.hubs[h].nexts[i], value, st))

(* frp.hub callback: nexts.forEach(next => next(value))                    *)
forEachLiveFrom(h, i, value, st) ==
    IF i > Len(st.hubs[h].nexts) THEN st
    ELSE forEachLiveFrom(h, i + 1, value, Invoke(st.hubs[h].nexts[i], value, st))

hub_next_Live(cb, value, st) ==
    forEachLiveFrom(cb.h, 1, value,
                    Log(st, [e |-> "emit", h |-> cb.h, v |-> value,
                             n |-> Len(st.hubs[cb.h].nexts)]))

hub_next(cb, value, st) ==
    LET n == Len(st.hubs[cb.h].nexts)
    IN  forEachFrom(cb.h, 1, n, value,
                    Log(st, [e |-> "emit", h |-> cb.h, v |-> value, n |-> n]))

(* frp.bind callback: value => valueToEvent(value)(next)                   *)
bind_next_Once(cb, value, st) ==
    LET inner == ApplyValueToEvent(cb.f, value)
    IN  IF \E i \in DOMAIN st.nexts[inner.l] :
              st.nexts[inner.l][i].k = "user" /\ st.nexts[inner.l][i].id = cb.next.id
        THEN st
        ELSE Subscribe(inner, cb.next, st)

bind_next(cb, value, st) ==
    Subscribe(ApplyValueToEvent(cb.f, value), cb.next, st)

(* frp.reject callback                                                     *)
reject_next(cb, value, st) ==
    IF ~ApplyPredicate(cb.p, value) THEN Invoke(cb.next, value, st) ELSE st

(* frp.throttle callback: now = GetSimulationTime() * 1000;                *)
(* if (last === 0 || now - last > ms) { next(value); last = now; }         *)
throttle_next_FirstOnly(cb, value, st) ==
    LET last == st.cells[cb.cell]
        now == st.time
    IN  IF last = 0
        THEN [Invoke(cb.next, value, st) EXCEPT !.cells[cb.cell] = now]
        ELSE st

throttle_next(cb, value, st) ==
    LET last == st.cells[cb.cell]
        now == st.time
    IN  IF last = 0 \/ now - last > cb.ms
        THEN [Invoke(cb.next, value, st) EXCEPT !.cells[cb.cell] = now]
        ELSE st

(* foldWithResetBehavior callback: the reset behavior is sampled first     *)
foldReset_next_StepsOnReset(cb, value, st) ==
    LET acc == IF snapshot(cb.reset, st) THEN ApplyStep(cb.step, cb.initial, value)
               ELSE ApplyStep(cb.step, st.cells[cb.cell], value)
    IN  Invoke(cb.next, acc, [st EXCEPT !.cells[cb.cell] = acc])

foldReset_next(cb, value, st) ==
    LET acc == IF snapshot(cb.reset, st) THEN cb.initial
               ELSE ApplyStep(cb.step, st.cells[cb.cell], value)
    IN  Invoke(cb.next, acc, [st EXCEPT !.cells[cb.cell] = acc])

(* frp.merge callback: value => next(value)                                *)
merge_next(cb, value, st) == Invoke(cb.next, value, st)

(* frp.stepper callback: nextStep(value) { valueAtLastStep = value }       *)
stepper_next(cb, value, st) == [st EXCEPT !.cells[cb.cell] = value]

(* A user callback: it is recorded in the trace; a recording callback      *)
(* keeps the value with the host's readings at the call; then it runs its  *)
(* program.                                                                *)
user_next(cb, value, st) ==
    LET s0 == Log(st, [e |-> "next", id |-> cb.id, v |-> value])
        s1 == IF Records(cb.prog)
              THEN [s0 EXCEPT !.outs[cb.id].got =
                        Append(@, [t |-> st.time, h |-> st.host, v |-> value])]
              ELSE s0
    IN  Run(cb.prog, s1)

Invoke(cb, value, st) ==
    CASE cb.k = "user" -> user_next(cb, value, st)
      [] cb.k = "map" -> map_next(cb, value, st)
      [] cb.k = "filter" -> filter_next(cb, value, st)
      [] cb.k = "fold" -> fold_next(cb, value, st)
      [] cb.k = "hub" -> hub_next(cb, value, st)
      [] cb.k = "reject" -> reject_next(cb, value, st)
      [] cb.k = "throttle" -> throttle_next(cb, value, st)
      [] cb.k = "foldReset" -> foldReset_next(cb, value, st)
      [] cb.k = "merge" -> merge_next(cb, value, st)
      [] cb.k = "bind" -> bind_next(cb, value, st)
      [] cb.k = "stepper" -> stepper_next(cb, value, st)

(* FrpList.call: for (const next of this.nexts) next(value).  The array    *)
(* iterator (ipairs in the Lua build) reads the live array, so a callback  *)
(* pushed during the loop is reached by the same loop.                     *)
callFrom(l, i, value, st) ==
    IF i > Len(st.nexts[l]) THEN st
    ELSE callFrom(l, i + 1, value, Invoke(st.nexts[l][i], value, st))

callDownFrom(l, i, value, st) ==
    IF i < 1 THEN st
    ELSE callDownFrom(l, i - 1, value, Invoke(st.nexts[l][i], value, st))

call_Backwards(l, value, st) ==
    callDownFrom(l, Len(st.nexts[l]), value,
                 Log(st, [e |-> "publish", l |-> l, v |-> value, n |-> Len(st.nexts[l])]))

call(l, value, st) ==
    callFrom(l, 1, value,
             Log(st, [e |-> "publish", l |-> l, v |-> value, n |-> Len(st.nexts[l])]))

----------------------------------------------------------------------------
(* FrpEntity.                                                              *)

(* updateLoop: this.updateList.call(this.e.GetSimulationTime())            *)
updateLoop(st) == call("update", st.time, st)

(* updateLoopFromCallback                                                  *)
updateLoopFromCallback_Always(st) == updateLoop(st)

updateLoopFromCallback(st) ==
    IF ~st.flag THEN updateLoop(st) ELSE st

(* The FrpVehicle constructor's init callback                              *)
WaitStream ==
    FilterStream("rising",
        FoldStream("fsm", <<FALSE, FALSE>>,
            MapStream("gt05", ListStream("update"))))

vehicleInit(onInitAndSettled, st) ==
    Run(<<Activate(TRUE), Sub(WaitStream, <<Activate(FALSE)>> \o onInitAndSettled)>>, st)

(* Initialise = () => { this.onInit(); this.updateLoopFromCallback() }     *)
InitialiseHandler_NoTick(st) ==
    IF st.vehicle THEN vehicleInit(st.user, st) ELSE Run(st.user, st)

InitialiseHandler(st) ==
    LET s1 == IF st.vehicle THEN vehicleInit(st.user, st) ELSE Run(st.user, st)
    IN  updateLoopFromCallback(s1)

(* Update, src/lib/frp-entity.ts: the release happens here                 *)
UpdateHandler_lib_NoEnd(st) == updateLoop(st)

UpdateHandler_lib(st) ==
    LET s1 == updateLoop(st)
    IN  IF ~s1.flag THEN EndUpdate(s1) ELSE s1

(* Update, second revision                                                 *)
UpdateHandler_alt(st) == updateLoop(st)

UpdateHandler(st) ==
    IF st.rev = "lib" THEN UpdateHandler_lib(st) ELSE UpdateHandler_alt(st)

(* FrpVehicle.setup: the payload callbacks                                 *)
PayloadHandler_TickFirst(l, value, st) == call(l, value, updateLoopFromCallback(st))

PayloadHandler(l, value, st) == updateLoopFromCallback(call(l, value, st))

(* OnCameraEnter's classification of the view                              *)
CameraOf(cabEnd, carriageCam) ==
    IF carriageCam = "Cab"
    THEN (IF cabEnd = "Rear" THEN "RearCab" ELSE "FrontCab")
    ELSE "Carriage"

----------------------------------------------------------------------------
(* The state machine.                                                      *)

\* the mutable state at the start of host callback `name`
Start(name) ==
    [rev |-> entityRev, vehicle |-> isVehicle, user |-> userInit, time |-> simTime,
     flag |-> updatingEveryFrame, req |-> requested, nexts |-> nexts, hubs |-> hubs,
     cells |-> cells, via |-> via, host |-> host, behs |-> behaviors, outs |-> outs,
     trace |-> << [e |-> "callback", name |-> name, flag |-> updatingEveryFrame] >>]

Spies(o) == { id \in DOMAIN o : o[id].spy }

Bounded(st) ==
    /\ Len(st.via) - Cardinality(Spies(st.outs))
          <= MaxLeaves + (IF isVehicle THEN 1 ELSE 0)
    /\ Cardinality(Spies(st.outs)) <= MaxSpies
    /\ \A id \in Spies(st.outs) : Len(st.outs[id].got) <= MaxOuts

Commit(st) ==
    /\ Bounded(st)
    /\ updatingEveryFrame' = st.flag
    /\ requested' = st.req
    /\ nexts' = st.nexts
    /\ hubs' = st.hubs
    /\ cells' = st.cells
    /\ via' = st.via
    /\ trace' = st.trace
    /\ behaviors' = st.behs
    /\ outs' = st.outs
    /\ UNCHANGED <<entityRev, isVehicle, userInit, simTime, host, slots, setupCalls>>

\* the user's composed streams: a shared one and an unshared one
MapS == MapStream("inc", ListStream("update"))
HubS == HubStream(1, MapS)

\* what a user callback may do when it is called
LeafProgs(stream) ==
    { <<>> }
    \cup (IF stream.s = "list"
          THEN { <<Activate(TRUE)>>, <<Activate(FALSE)>> } ELSE {})
    \cup (IF stream.s = "list" /\ stream.l # "update"
          THEN {} ELSE { <<Sub(stream, <<>>)>> })
    \cup (IF stream.s = "list" /\ stream.l = "update"
          THEN { <<Sub(HubS, <<>>)>> } ELSE {})

UserStreams(vehicle) ==
    { ListStream("update"), MapS, HubS }
    \cup (IF vehicle THEN { ListStream(l) : l \in PayloadLists } ELSE {})

UserOps(vehicle) ==
    { Activate(TRUE), Activate(FALSE) }
    \cup UNION { { Sub(s, p) : p \in LeafProgs(s) } : s \in UserStreams(vehicle) }

Programs(vehicle) ==
    UNION { [1..n -> UserOps(vehicle)] : n \in 0..MaxInitOps }

(* The host's callback slots are global variables; a slot is modelled by  *)
(* the handlers the function stored in it runs, in order.                  *)
EntitySlots == {"Initialise", "Update"}
VehicleSlots ==
    {"OnControlValueChange", "OnConsistMessage", "OnCameraEnter", "OnCameraLeave"}
SlotsOf(vehicle) == EntitySlots \cup (IF vehicle THEN VehicleSlots ELSE {})
NoSlots == [s \in EntitySlots \cup VehicleSlots |-> << >>]

(* FrpEntity.setup / FrpVehicle.setup: every slot is assigned a new        *)
(* function that runs this object's handler                                *)
setup_Chained(vehicle, installed) ==
    [s \in DOMAIN installed |->
        IF s \in SlotsOf(vehicle) THEN Append(installed[s], "this") ELSE installed[s]]

setup(vehicle, installed) ==
    [s \in DOMAIN installed |->
        IF s \in SlotsOf(vehicle) THEN << "this" >> ELSE installed[s]]

\* the handler setup() assigns to a slot, called with the host's arguments
HandlerOf(slot, payload, st) ==
    CASE slot = "Initialise" -> InitialiseHandler(st)
      [] slot = "Update" -> UpdateHandler(st)
      [] slot = "OnControlValueChange" -> PayloadHandler("cv", payload, st)
      [] slot = "OnConsistMessage" -> PayloadHandler("msg", payload, st)
      [] slot \in {"OnCameraEnter", "OnCameraLeave"} -> PayloadHandler("cam", payload, st)

\* the host calls the function in the slot: it runs the slot's handlers
Dispatch(slot, payload, st) ==
    LET n == Len(slots[slot])
        ran[i \in 0..n] ==
            IF i = 0 THEN st
            ELSE IF i = 1 THEN HandlerOf(slot, payload, st)
            ELSE HandlerOf(slot, payload,
                           Log(ran[i - 1], [e |-> "callback", name |-> slot,
                                            flag |-> ran[i - 1].flag]))
    IN  ran[n]

\* the script has called setup() once when the host starts calling
SetUp ==
    /\ slots = setup(isVehicle, NoSlots)
    /\ setupCalls = 1

\* the object after construction, before the host has called anything
Constructed ==
    /\ initialised = FALSE
    /\ simTime = 0
    /\ updatingEveryFrame = FALSE
    /\ requested = FALSE
    /\ nexts = [l \in Lists |-> <<>>]
    /\ hubs = [h \in {1} |-> [nexts |-> <<>>, isStarted |-> FALSE, srcSubs |-> 0]]
    /\ cells = <<>>
    /\ via = <<>>
    /\ trace = <<>>
    /\ host = HostAtStart
    /\ behaviors = [b \in BehaviorNames |-> 0]
    /\ outs = <<>>

Init ==
    /\ entityRev \in {"lib", "alt"}
    /\ isVehicle \in BOOLEAN
    /\ userInit \in Programs(isVehicle)
    /\ Constructed
    /\ SetUp

Initialise ==
    /\ ~initialised
    /\ slots["Initialise"] # << >>
    /\ initialised' = TRUE
    /\ Commit(Dispatch("Initialise", << >>, Start("Initialise")))

\* the host calls Update only while a per-frame request is outstanding
Update ==
    /\ initialised
    /\ requested
    /\ slots["Update"] # << >>
    /\ UNCHANGED initialised
    /\ Commit(Dispatch("Update", << >>, Start("Update")))

OnControlValueChange ==
    /\ initialised
    /\ isVehicle
    /\ UNCHANGED initialised
    /\ slots["OnControlValueChange"] # << >>
    /\ Commit(Dispatch("OnControlValueChange", <<"Throttle", 0, 1>>,
                       Start("OnControlValueChange")))

OnConsistMessage ==
    /\ initialised
    /\ isVehicle
    /\ UNCHANGED initialised
    /\ slots["OnConsistMessage"] # << >>
    /\ Commit(Dispatch("OnConsistMessage", <<10001, "", "Forward">>,
                       Start("OnConsistMessage")))

OnCameraEnter ==
    /\ initialised
    /\ isVehicle
    /\ slots["OnCameraEnter"] # << >>
    /\ UNCHANGED initialised
    /\ \E cabEnd \in CameraEnterCabEnds, carriageCam \in CameraEnterViews :
          Commit(Dispatch("OnCameraEnter", CameraOf(cabEnd, carriageCam),
                          Start("OnCameraEnter")))

OnCameraLeave ==
    /\ initialised
    /\ isVehicle
    /\ UNCHANGED initialised
    /\ slots["OnCameraLeave"] # << >>
    /\ Commit(Dispatch("OnCameraLeave", "Outside", Start("OnCameraLeave")))

\* the host's clock moves forward between callbacks
AdvanceClock ==
    /\ initialised
    /\ \E t \in ClockReadings : t > simTime /\ simTime' = t
    /\ UNCHANGED <<entityRev, isVehicle, userInit, initialised, updatingEveryFrame,
                   requested, nexts, hubs, cells, via, trace, host, behaviors, outs,
                   slots, setupCalls>>

Next ==
    \/ Initialise
    \/ Update
    \/ OnControlValueChange
    \/ OnConsistMessage
    \/ OnCameraEnter
    \/ OnCameraLeave
    \/ AdvanceClock

Spec == Init /\ [][Next]_vars

----------------------------------------------------------------------------
(* The stream scenarios: the same object and host callbacks, constructed   *)
(* with programs that build one pipeline of the library each and observe   *)
(* it with recording callbacks, under a host whose readings change.  Of    *)
(* the vehicle's payload callbacks the host uses OnControlValueChange.     *)

Spy(stream) == Sub(stream, <<Record>>)

\* this.createUpdateStream()
Tap == ListStream("update")
\* frp.fold((sum, x) => sum + x, 0)(update$)
SumS == FoldStream("sum", 0, Tap)
\* frp.throttle(ThrottleMs)(update$)
ThrottleS == ThrottleStream(ThrottleMs, Tap)
\* frp.map(_ => rv.GetIsPlayer())(update$), then fsm(false), then the
\* filter of the rising edge
PlayerS == MapStream("GetIsPlayer", Tap)
FsmS == FoldStream("fsm", <<FALSE, FALSE>>, PlayerS)
RisingS == FilterStream("rising", FsmS)
\* foldWithResetBehavior((sum, x) => sum + x, 0, reset)(update$)
SumResetS == FoldResetStream("sum", 0, HostB("reset"), Tap)
\* FrpVehicle.createGetCvStream(name, index)
GetCvS == RejectStream("undefined", MapStream("GetControlValue", Tap))
\* FrpVehicle.createCouplingsStream()
CouplingsS == MapStream("SendConsistMessage", Tap)
\* the stream returned by FrpVehicle.createAuthorityStream()
AuthorityS == MapStream("authority", Tap)
\* frp.map(_ => frp.snapshot(last))(update$)
LastS == MapStream("last", Tap)
\* the initial value of the user's stepper
LastInitial == Defined(7)

FoldScenario ==
    <<Activate(TRUE), Spy(Tap), Spy(SumS), Spy(SumS), Sub(Tap, <<Spy(SumS)>>)>>
ThrottleScenario == <<Activate(TRUE), Spy(Tap), Spy(ThrottleS)>>
FsmScenario == <<Activate(TRUE), Spy(Tap), Spy(FsmS), Spy(RisingS)>>
FoldResetScenario == <<Activate(TRUE), Spy(Tap), Spy(SumResetS)>>
StepperScenario ==
    <<Activate(TRUE), Spy(Tap), Stepper("last", GetCvS, LastInitial),
      Spy(LastS), Spy(LastS)>>
\* frp.merge(a)(b), possibly after another callback has started the hub
MergeScenarios ==
    { <<Activate(TRUE)>> \o pre \o <<Spy(MergeStream(ab[1], ab[2]))>> :
        pre \in { << >>, <<Sub(HubS, << >>)>> },
        ab \in { <<Tap, HubS>>, <<HubS, Tap>>, <<Tap, MapS>>, <<MapS, Tap>> } }
GetCvScenario == <<Spy(Tap), Spy(GetCvS), Spy(GetCvS)>>
CouplingsScenario == <<Spy(Tap), Spy(CouplingsS), Spy(CouplingsS)>>
AuthorityScenario == <<Spy(Tap), CreateAuthority, Spy(AuthorityS)>>
\* frp.bind(_ => this.createUpdateStream())(this.createOnCvChangeStream()),
\* with a recording callback on the outer stream itself
BindS == BindStream("update", ListStream("cv"))
BindScenario == <<Spy(ListStream("cv")), Sub(BindS, << >>)>>

StreamPrograms(vehicle) ==
    IF vehicle THEN { GetCvScenario, CouplingsScenario, AuthorityScenario, BindScenario }
    ELSE { FoldScenario, ThrottleScenario, FsmScenario, FoldResetScenario,
           StepperScenario } \cup MergeScenarios

(* What of the host a program reads: the readings it never reads cannot    *)
(* influence it, and the host changes only the others.                     *)
RECURSIVE StreamReads(_), ProgReads(_)

TransformReads(f) ==
    CASE f \in {"inc", "gt05"} -> {"time"}
      [] f = "GetControlValue" -> {"cv"}
      [] f = "GetSpeed" -> {"speed"}
      [] f = "GetIsPlayer" -> {"player"}
      [] f = "authority" -> {"player"}
      [] OTHER -> {}

StreamReads(stream) ==
    CASE stream.s = "list" -> {}
      [] stream.s = "merge" -> StreamReads(stream.a) \cup StreamReads(stream.b)
      [] stream.s = "map" -> TransformReads(stream.f) \cup StreamReads(stream.up)
      [] stream.s = "fold" ->
            (IF stream.step = "sum" THEN {"time"} ELSE {}) \cup StreamReads(stream.up)
      [] stream.s = "foldReset" ->
            {"time", stream.reset.field} \cup StreamReads(stream.up)
      [] stream.s = "throttle" -> {"time"} \cup StreamReads(stream.up)
      [] OTHER -> StreamReads(stream.up)

ProgReads(prog) ==
    IF Len(prog) = 0 THEN {}
    ELSE LET op == Head(prog)
         IN  (CASE op.op = "sub" -> StreamReads(op.s) \cup ProgReads(op.prog)
                [] op.op = "stepper" -> StreamReads(op.s)
                [] op.op = "createAuthorityStream" -> StreamReads(DirectionS)
                [] OTHER -> {})
             \cup ProgReads(Tail(prog))

\* the FrpVehicle constructor wraps the program into its wait for 0.5 s
Reads ==
    IF isVehicle THEN ProgReads(<<Sub(WaitStream, userInit)>>) ELSE ProgReads(userInit)

InitStreams ==
    /\ entityRev = "lib"
    /\ isVehicle \in BOOLEAN
    /\ userInit \in StreamPrograms(isVehicle)
    /\ Constructed
    /\ SetUp

\* a getter of the host returns something else from now on
HostChange ==
    /\ \E field \in Reads \ {"time"} : \E r \in HostReadings(field) :
          /\ r # host[field]
          /\ host' = [host EXCEPT ![field] = r]
    /\ UNCHANGED <<entityRev, isVehicle, userInit, initialised, simTime,
                   updatingEveryFrame, requested, nexts, hubs, cells, via, trace,
                   behaviors, outs, slots, setupCalls>>

\* the host's clock moves forward between callbacks
AdvanceStreamClock ==
    /\ initialised
    /\ "time" \in Reads
    /\ \E t \in StreamClockReadings : t > simTime /\ simTime' = t
    /\ UNCHANGED <<entityRev, isVehicle, userInit, initialised, updatingEveryFrame,
                   requested, nexts, hubs, cells, via, trace, host, behaviors, outs,
                   slots, setupCalls>>

NextStreams ==
    \/ Initialise
    \/ Update
    \/ OnControlValueChange
    \/ AdvanceStreamClock
    \/ HostChange

SpecStreams == InitStreams /\ [][NextStreams]_vars

----------------------------------------------------------------------------
(* The script's calls of setup(): the object starts with empty slots and   *)
(* the script may call setup() at any time between host callbacks.  The    *)
(* trace then holds the call of setup() until the next host callback.      *)

\* constructor arguments that subscribe a callback to the update stream
\* and to one payload stream
SetupPrograms(vehicle) ==
    IF vehicle
    THEN { <<Sub(ListStream("update"), << >>), Sub(ListStream(l), << >>)>> :
             l \in PayloadLists }
    ELSE { <<Sub(ListStream("update"), << >>)>>,
           <<Activate(TRUE), Sub(ListStream("update"), << >>)>> }

InitSetup ==
    /\ entityRev \in {"lib", "alt"}
    /\ isVehicle \in BOOLEAN
    /\ userInit \in SetupPrograms(isVehicle)
    /\ Constructed
    /\ slots = NoSlots
    /\ setupCalls = 0

Setup ==
    /\ setupCalls < MaxSetupCalls
    /\ setupCalls' = setupCalls + 1
    /\ slots' = setup(isVehicle, slots)
    /\ trace' = << [e |-> "setup", name |-> "setup", flag |-> updatingEveryFrame] >>
    /\ UNCHANGED <<entityRev, isVehicle, userInit, initialised, simTime,
                   updatingEveryFrame, requested, nexts, hubs, cells, via,
                   host, behaviors, outs>>

NextSetup ==
    \/ Setup
    \/ Initialise
    \/ Update
    \/ OnControlValueChange
    \/ OnConsistMessage
    \/ OnCameraEnter
    \/ OnCameraLeave
    \/ AdvanceClock

SpecSetup == InitSetup /\ [][NextSetup]_vars

----------------------------------------------------------------------------
(* Reading the trace of the last host callback.                            *)

Events(e) == { i \in DOMAIN trace : trace[i].e = e }

MinOf(S) == CHOOSE x \in S : \A y \in S : x <= y
MaxOf(S) == CHOOSE x \in S : \A y \in S : x >= y

\* the host callback whose handler ran last, and the flag when it was entered
Callback == IF Len(trace) = 0 THEN "none" ELSE trace[1].name
EntryFlag == trace[1].flag

NonFrameCallbacks ==
    {"OnControlValueChange", "OnConsistMessage", "OnCameraEnter", "OnCameraLeave"}

PayloadListOf(name) ==
    CASE name = "OnControlValueChange" -> "cv"
      [] name = "OnConsistMessage" -> "msg"
      [] name \in {"OnCameraEnter", "OnCameraLeave"} -> "cam"

TickPublishes == { i \in Events("publish") : trace[i].l = "update" }

\* a publish's part of the trace ends where the handler's next publish starts
SegEnd(p) ==
    LET later == { q \in Events("publish") : q > p }
    IN  IF later = {} THEN Len(trace) ELSE MinOf(later) - 1

\* the flag when the handler reached updateLoopFromCallback: the entry flag
\* as changed by the activate calls made before the tick (if any) was published
FlagAtCheck ==
    LET first == IF TickPublishes = {} THEN Len(trace) + 1 ELSE MinOf(TickPublishes)
        acts == { i \in Events("activate") : i < first }
    IN  IF acts = {} THEN EntryFlag ELSE trace[MaxOf(acts)].b

IsUser(cb) == cb.k = "user"

\* the calls of the user callbacks `ids` recorded in trace[from..to], in order
CallsOf(ids, from, to) ==
    LET Mine(ev) == ev.e = "next" /\ ev.id \in ids
    IN  SelectSeq(SubSeq(trace, from, to), Mine)

----------------------------------------------------------------------------
(* C1: a publish on an FrpList calls the user callbacks that were          *)
(* registered on it before the publish started in registration order,      *)
(* each exactly once, with the published value.                            *)
C1_SubscriptionOrder ==
    \A p \in Events("publish") :
        LET l == trace[p].l
            regs == SelectSeq(SubSeq(nexts[l], 1, trace[p].n), IsUser)
            ids == { regs[i].id : i \in DOMAIN regs }
            calls == CallsOf(ids, p + 1, SegEnd(p))
        IN  /\ Len(calls) = Len(regs)
            /\ \A i \in DOMAIN regs :
                  calls[i].id = regs[i].id /\ calls[i].v = trace[p].v

\* a publish reached two user callbacks registered on the list, after an
\* earlier handler had already published on it
C1_Witness ==
    \E p \in Events("publish") :
        /\ Callback # "Initialise"
        /\ Len(SelectSeq(SubSeq(nexts[trace[p].l], 1, trace[p].n), IsUser)) >= 2

(* C2: a callback registered on an FrpList while a publish on that list    *)
(* is in progress is not called by that publish.                           *)
C2_SnapshotAtPublishStart ==
    \A p \in Events("publish") :
        LET l == trace[p].l
            late == { nexts[l][i].id :
                        i \in { j \in DOMAIN nexts[l] :
                                  j > trace[p].n /\ IsUser(nexts[l][j]) } }
        IN  Len(CallsOf(late, p + 1, SegEnd(p))) = 0

C4_OneTickAfterPayload ==
    /\ TickPublishes # {} => Callback # "none"
    /\ (Callback \in NonFrameCallbacks /\ ~FlagAtCheck) =>
          /\ Cardinality(TickPublishes) = 1
          /\ trace[2].e = "publish"
          /\ trace[2].l = PayloadListOf(Callback)
          /\ LET l == trace[2].l
                 t == MinOf(TickPublishes)
             IN  \A i \in 1..trace[2].n :
                    IsUser(nexts[l][i]) =>
                        \E j \in Events("next") :
                            j < t /\ trace[j].id = nexts[l][i].id

\* updates were off, a payload callback was called, then the tick was published
C4_Witness ==
    /\ Callback \in NonFrameCallbacks
    /\ ~EntryFlag
    /\ ~FlagAtCheck
    /\ trace[2].n >= 1
    /\ Cardinality(TickPublishes) = 1
    /\ nexts["update"] # <<>>

(* C5: every Update callback publishes exactly one tick, and a non-frame   *)
(* host callback that finds every-frame updates on publishes none.         *)
C5_TicksOnlyFromUpdate ==
    /\ Callback = "Update" => Cardinality(TickPublishes) = 1
    /\ (Callback \in NonFrameCallbacks /\ FlagAtCheck) => TickPublishes = {}

\* updates were on throughout a payload callback that reached a subscriber
C5_Witness ==
    /\ Callback \in NonFrameCallbacks
    /\ EntryFlag
    /\ updatingEveryFrame
    /\ Events("next") # {}
    /\ TickPublishes = {}

(* C6: BeginUpdate is never called while a request is outstanding and      *)
(* EndUpdate never while none is, and a call of activateUpdatesEveryFrame  *)
(* that does not change the flag makes no host call.                       *)
C6_NoDoubleRequest ==
    /\ \A i \in Events("BeginUpdate") : ~trace[i].was
    /\ \A i \in Events("EndUpdate") : trace[i].was
    /\ \A i \in Events("activate") :
          (trace[i].b = trace[i].was /\ i < Len(trace)) =>
              /\ trace[i + 1].e # "BeginUpdate"
              /\ entityRev = "alt" => trace[i + 1].e # "EndUpdate"

C8_HubSubscribesOnce ==
    \A h \in DOMAIN hubs :
        /\ hubs[h].srcSubs <= 1
        /\ hubs[h].srcSubs = (IF Len(hubs[h].nexts) = 0 THEN 0 ELSE 1)
        /\ hubs[h].isStarted <=> (hubs[h].srcSubs = 1)

\* a hub with two subscribers, the later one subscribed from inside a callback
C8_Witness ==
    /\ Len(hubs[1].nexts) >= 2
    /\ hubs[1].srcSubs = 1
    /\ \E i \in Events("sub") :
          /\ trace[i].tag = "hub"
          /\ trace[i].id > 1
          /\ trace[i - 1].e = "next"

(* C9: when the source of a hub emits, the value goes exactly once, in     *)
(* subscription order, to each callback that had subscribed to the hub     *)
(* before the emission, and to no callback that subscribed later.          *)
C9_HubFanOut ==
    LET hubIds == { id \in DOMAIN via : via[id] = "hub" }
        calls == CallsOf(hubIds, 1, Len(trace))
    IN  /\ Events("emit") = {} => Len(calls) = 0
        /\ \A p \in Events("emit") :
              LET subs == hubs[trace[p].h].nexts
              IN  /\ Events("emit") = {p}
                  /\ Len(CallsOf(hubIds, 1, p)) = 0
                  /\ Len(calls) = trace[p].n
                  /\ \A i \in 1..trace[p].n :
                        /\ calls[i].id = subs[i].id
                        /\ calls[i].v = trace[p].v

\* an emission reached two subscribers while a third one joined
C9_Witness ==
    \E p \in Events("emit") :
        /\ trace[p].n >= 2
        /\ Len(hubs[trace[p].h].nexts) > trace[p].n

(* C10: every subscription to the composed stream map(f)(list stream)      *)
(* registers its own callback on the list, and a publish runs f once for   *)
(* each of them: each subscriber registered before the publish is called   *)
(* once, right after its own run of f.                                     *)
C10_MapPerSubscriber ==
    LET mapIds == { id \in DOMAIN via : via[id] = "map" }
        chains == { i \in DOMAIN nexts["update"] :
                      /\ nexts["update"][i].k = "map"
                      /\ IsUser(nexts["update"][i].next) }
    IN  /\ Cardinality(chains) = Cardinality(mapIds)
        /\ \A p \in TickPublishes :
              \A i \in { c \in chains : c <= trace[p].n } :
                  LET id == nexts["update"][i].next.id
                      js == { j \in Events("next") : trace[j].id = id }
                  IN  /\ Cardinality(js) = 1
                      /\ \A j \in js :
                            /\ j > p
                            /\ trace[j].v = ApplyTransform("inc", trace[p].v)
                            /\ trace[j - 1].e = "transform"
                            /\ trace[j - 1].f = "inc"
                            /\ trace[j - 1].v = trace[p].v

\* a tick reached two subscriptions of the same map stream: f ran twice
C10_Witness ==
    \E p \in TickPublishes :
        /\ Cardinality({ id \in DOMAIN via : via[id] = "map" }) >= 2
        /\ Cardinality({ j \in Events("transform") :
                            trace[j].f = "inc" /\ trace[j + 1].e = "next" }) >= 2

----------------------------------------------------------------------------
\* the host capability calls recorded in trace[from..to]
HostCallsIn(callName, dir, from, to) ==
    { i \in from..to : trace[i].e = "host" /\ trace[i].call = callName /\ trace[i].dir = dir }

(* C11: for the streams of createGetCvStream and createCouplingsStream,    *)
(* within one tick the host capability is called at most once per call     *)
(* site (GetControlValue once, SendConsistMessage once per direction),     *)
(* however many subscribers the returned stream value has.                 *)
C11_HostCalledOncePerTick ==
    \A p \in TickPublishes :
        /\ Cardinality(HostCallsIn("GetControlValue", "", p, SegEnd(p))) <= 1
        /\ \A dir \in {"Forward", "Backward"} :
              Cardinality(HostCallsIn("SendConsistMessage", dir, p, SegEnd(p))) <= 1

----------------------------------------------------------------------------
(* What the recording callbacks of a scenario received.                    *)

\* the scenario's first recording callback is subscribed to the update
\* stream itself: it has received every tick since the pipelines exist
TapId == IF isVehicle THEN 2 ELSE 1
TapGot == IF TapId \in DOMAIN outs THEN outs[TapId].got ELSE << >>

\* the recording callbacks subscribed to a stream of kind `tag`
SpiesOf(tag) == { id \in Spies(outs) : id # TapId /\ via[id] = tag }

\* the last n ticks
LastTicks(n) == SubSeq(TapGot, Len(TapGot) - n + 1, Len(TapGot))

\* does the constructor argument subscribe to a stream for which P holds
Subscribes(P(_)) ==
    \E i \in DOMAIN userInit : userInit[i].op = "sub" /\ P(userInit[i].s)

RECURSIVE SumOf(_)
SumOf(seq) == IF Len(seq) = 0 THEN 0 ELSE Head(seq) + SumOf(Tail(seq))

IsSum(stream) == stream.s = "fold" /\ stream.step = "sum"

(* C12: every subscription to fold(step, initial)(s) keeps its own          *)
(* accumulator, which starts at initial: the k-th value it emits is the    *)
(* fold of the first k inputs delivered to that subscription alone, so     *)
(* subscriptions fed the same inputs emit the same values and a later      *)
(* subscription restarts from initial.                                     *)
C12_FoldIsolation ==
    Subscribes(IsSum) =>
        \A id \in SpiesOf("fold") :
            LET got == outs[id].got
                n == Len(got)
            IN  /\ n <= Len(TapGot)
                /\ \A k \in 1..n :
                      got[k].v = SumOf([j \in 1..k |-> LastTicks(n)[j].v])
                /\ \A other \in SpiesOf("fold") :
                      Len(outs[other].got) = n =>
                          \A k \in 1..n : outs[other].got[k].v = got[k].v

\* two subscriptions made together have emitted the same two values, and
\* one made later has emitted a different value at the same tick
C12_Witness ==
    /\ Subscribes(IsSum)
    /\ \E a \in SpiesOf("fold"), b \in SpiesOf("fold"), late \in SpiesOf("fold") :
          /\ a # b
          /\ Len(outs[a].got) = 2 /\ Len(outs[b].got) = 2
          /\ outs[a].got[1].v > 0
          /\ Len(outs[late].got) = 1
          /\ outs[late].got[1].v # outs[a].got[2].v

----------------------------------------------------------------------------
(* C13: for one subscription to throttle(ms)(s), once a value has been     *)
(* forwarded no later value is forwarded while less than ms milliseconds   *)
(* of simulated time have elapsed since the last forwarded value, whatever *)
(* the clock readings, a first forward at simulated time 0 included.       *)
C13_SuppressedWithinMs ==
    \A id \in SpiesOf("throttle") :
        \A k \in 1..(Len(outs[id].got) - 1) :
            outs[id].got[k + 1].t - outs[id].got[k].t >= ThrottleMs

----------------------------------------------------------------------------
\* was recording callback id called during the publish at trace[p]
CalledIn(id, p) ==
    \E i \in p..SegEnd(p) : trace[i].e = "next" /\ trace[i].id = id

\* what recording callback id had received before the publish at trace[p]
\* of the last host callback
GotBefore(id, p) ==
    LET got == outs[id].got
    IN  IF CalledIn(id, p) THEN SubSeq(got, 1, Len(got) - 1) ELSE got

----------------------------------------------------------------------------
IsFsm(stream) == stream.s = "fold" /\ stream.step = "fsm"

\* the k-th input of the fsm of the scenario: the player reading at tick k,
\* and the initial state before the first
FsmInput(k) == IF k = 0 THEN FALSE ELSE TapGot[k].h.player

\* the ticks at which the input went from false to true
RisingTicks == { k \in DOMAIN TapGot : (~FsmInput(k - 1)) /\ FsmInput(k) }

(* C15: the k-th pair emitted by fsm(initial) is (v(k-1), vk), where v0 is *)
(* initial and vk the k-th input; a downstream filter for from = false,    *)
(* to = true fires exactly once per false-to-true transition of the input  *)
(* and never on repeated equal values.                                     *)
C15_FsmPairs ==
    Subscribes(IsFsm) =>
        /\ \A id \in SpiesOf("fold") :
              /\ Len(outs[id].got) = Len(TapGot)
              /\ \A k \in DOMAIN TapGot :
                    outs[id].got[k].v = <<FsmInput(k - 1), FsmInput(k)>>
        /\ \A id \in SpiesOf("filter") :
              /\ Len(outs[id].got) = Cardinality(RisingTicks)
              /\ \A p \in TickPublishes :
                    CalledIn(id, p) <=> Len(TapGot) \in RisingTicks

\* the input rose twice (true, false, true): the filter has fired twice,
\* and the pairs of all three inputs were emitted
C15_Witness ==
    /\ Subscribes(IsFsm)
    /\ \E id \in SpiesOf("filter") : Len(outs[id].got) = 2
    /\ \E id \in SpiesOf("fold") :
          /\ Len(outs[id].got) = 3
          /\ outs[id].got[2].v = <<TRUE, FALSE>>

----------------------------------------------------------------------------
\* the accumulator of foldWithResetBehavior((sum, x) => sum + x, 0, reset)
\* after the first k ticks, from the ticks and the reset readings
RECURSIVE ResetSum(_)
ResetSum(k) ==
    IF k = 0 THEN 0
    ELSE IF TapGot[k].h.reset THEN 0
    ELSE ResetSum(k - 1) + TapGot[k].v

(* C16: on each input foldWithResetBehavior(step, initial, reset) samples  *)
(* reset first; if it is true the emitted value and the new accumulator    *)
(* are initial and step is not applied; otherwise the emitted value and    *)
(* the new accumulator are step(accumulator, value).                       *)
C16_FoldWithReset ==
    \A id \in SpiesOf("foldReset") :
        /\ Len(outs[id].got) = Len(TapGot)
        /\ \A k \in DOMAIN TapGot : outs[id].got[k].v = ResetSum(k)

\* something was accumulated, a reset discarded it together with a
\* non-zero input, and the next input was accumulated from initial
C16_Witness ==
    \E id \in SpiesOf("foldReset") :
        /\ Len(outs[id].got) = 3
        /\ outs[id].got[1].v > 0
        /\ TapGot[2].h.reset /\ TapGot[2].v > 0 /\ outs[id].got[2].v = 0
        /\ (~TapGot[3].h.reset) /\ outs[id].got[3].v = TapGot[3].v

----------------------------------------------------------------------------
\* the callback at the end of the chain of callbacks that starts with cb
RECURSIVE EndOf(_)
EndOf(cb) == IF cb.k \in {"user", "stepper", "hub"} THEN cb ELSE EndOf(cb.next)

\* the callbacks registered on the update list on behalf of stepper `name`
StepperSubscriptions(name) ==
    { i \in DOMAIN nexts["update"] :
        LET end == EndOf(nexts["update"][i])
        IN  end.k = "stepper" /\ end.cell = behaviors[name] }

\* the most recent value emitted by createGetCvStream in the first k ticks
\* (the defined control values), or the stepper's initial value
RECURSIVE LastEmitted(_)
LastEmitted(k) ==
    IF k = 0 THEN LastInitial
    ELSE IF TapGot[k].h.cv.some THEN TapGot[k].h.cv
    ELSE LastEmitted(k - 1)

(* C17: stepper(s, initial) subscribes to s exactly once, when it is       *)
(* called and not when the behavior is read; reading the behavior yields   *)
(* initial before any emission of s and the most recent value emitted by   *)
(* s otherwise; reading never changes any state.                           *)
C17_Stepper ==
    behaviors["last"] # 0 =>
        /\ Cardinality(StepperSubscriptions("last")) = 1
        /\ cells[behaviors["last"]] = LastEmitted(Len(TapGot))
        /\ \A id \in SpiesOf("map") :
              /\ Len(outs[id].got) = Len(TapGot)
              /\ \A k \in DOMAIN TapGot : outs[id].got[k].v = LastEmitted(k)

\* read before any emission, read after an emission, and read again
\* (twice per tick) at a tick where s emitted nothing
C17_Witness ==
    /\ behaviors["last"] # 0
    /\ Cardinality(SpiesOf("map")) = 2
    /\ \E id \in SpiesOf("map") :
          /\ Len(outs[id].got) = 3
          /\ outs[id].got[1].v = LastInitial
          /\ outs[id].got[2].v = Defined(1)
          /\ (~TapGot[3].h.cv.some) /\ outs[id].got[3].v = Defined(1)

----------------------------------------------------------------------------
MergeSpies == { id \in Spies(outs) : via[id] = "merge" }

\* the merged stream the constructor argument subscribes to
IsMerge(stream) == stream.s = "merge"
Merged ==
    userInit[CHOOSE i \in DOMAIN userInit :
                userInit[i].op = "sub" /\ IsMerge(userInit[i].s)].s

\* an earlier subscription of the constructor argument has started the hub
HubStartedEarlier ==
    \E i \in DOMAIN userInit : userInit[i].op = "sub" /\ userInit[i].s.s = "hub"

\* what a stream of the scenarios emits for the tick value t
EmissionOf(stream, t) == IF stream.s = "list" THEN t ELSE ApplyTransform("inc", t)

\* on every tick the merged stream forwards exactly two values, first's
\* emission and then second's
ForwardsInOrder(id, first, second) ==
    \A p \in TickPublishes :
        LET calls == CallsOf({id}, p, SegEnd(p))
        IN  /\ Len(calls) = 2
            /\ calls[1].v = EmissionOf(first, trace[p].v)
            /\ calls[2].v = EmissionOf(second, trace[p].v)

----------------------------------------------------------------------------
\* the sign of the last of the first k speed readings that lies strictly
\* outside the dead-band [-stopSpeed, stopSpeed], None if there is none
RECURSIVE SensedAfter(_)
SensedAfter(k) ==
    IF k = 0 THEN "None"
    ELSE LET speed == TapGot[k].h.speed
         IN  IF speed \in (-stopSpeed)..stopSpeed THEN SensedAfter(k - 1)
             ELSE IF speed > 0 THEN "Forward" ELSE "Backward"

(* C19: in the authority direction fold a speed reading within             *)
(* [-stopSpeed, stopSpeed], bounds included, leaves the direction          *)
(* unchanged: the direction is the sign of the last reading strictly       *)
(* outside the dead-band, and None if there has been none.                 *)
C19_DirectionDeadBand ==
    behaviors["direction"] # 0 =>
        cells[behaviors["direction"]] = SensedAfter(Len(TapGot))

\* a direction was sensed, and a later reading on the bound of the
\* dead-band of the opposite sign has left it alone
C19_Witness ==
    /\ behaviors["direction"] # 0
    /\ Len(TapGot) >= 2
    /\ TapGot[Len(TapGot)].h.speed = -stopSpeed
    /\ cells[behaviors["direction"]] = "Forward"

----------------------------------------------------------------------------
\* the authority for a sensed direction when the host does not report
\* player control
AiAuthority(direction) ==
    CASE direction = "None" -> "IsAiParked"
      [] direction = "Forward" -> "IsAiMovingForward"
      [] direction = "Backward" -> "IsAiMovingBackward"

(* C20: on every tick the authority stream emits IsPlayer when the host    *)
(* reports player control at that tick, whatever the speed history;        *)
(* otherwise it emits IsAiParked, IsAiMovingForward or IsAiMovingBackward  *)
(* for the sensed direction None, Forward or Backward.                     *)
C20_AuthorityClassification ==
    behaviors["direction"] # 0 =>
        \A id \in SpiesOf("map") :
            /\ Len(outs[id].got) = Len(TapGot)
            /\ \A k \in DOMAIN TapGot :
                  outs[id].got[k].v =
                      IF TapGot[k].h.player THEN "IsPlayer"
                      ELSE AiAuthority(SensedAfter(k))

\* player control was reported while the vehicle was sensed moving, and
\* the AI classes were emitted at the ticks around it
C20_Witness ==
    /\ behaviors["direction"] # 0
    /\ \E id \in SpiesOf("map") :
          /\ Len(outs[id].got) = 3
          /\ outs[id].got[1].v = "IsAiMovingBackward"
          /\ outs[id].got[2].v = "IsPlayer" /\ SensedAfter(2) = "Forward"
          /\ outs[id].got[3].v = "IsAiMovingForward"

----------------------------------------------------------------------------
\* the publishes on list l recorded in the trace
PublishesOn(l) == { i \in Events("publish") : trace[i].l = l }

(* C21: however often setup() has been called on the object, every host   *)
(* callback slot it installs holds exactly one handler: one invocation of  *)
(* a host callback runs the handler once, dispatches its payload once,     *)
(* publishes at most one tick and calls no user callback twice.            *)
C21_SetupInstallsOnce ==
    /\ setupCalls >= 1 => \A s \in SlotsOf(isVehicle) : Len(slots[s]) = 1
    /\ Cardinality(Events("callback")) <= 1
    /\ Cardinality(TickPublishes) <= 1
    /\ Callback \in NonFrameCallbacks =>
          Cardinality(PublishesOn(PayloadListOf(Callback))) = 1
    /\ \A id \in DOMAIN via :
          Cardinality({ i \in Events("next") : trace[i].id = id }) <= 1

\* after the second setup() the host has invoked a payload callback: a
\* user callback on the payload list was called and a tick was published
C21_Witness ==
    /\ setupCalls = 2
    /\ Callback \in NonFrameCallbacks
    /\ \E i \in Events("next") : via[trace[i].id] = PayloadListOf(Callback)
    /\ TickPublishes # {}

----------------------------------------------------------------------------
\* the callbacks one run of the constructor argument subscribes
UserSubs == Cardinality({ i \in DOMAIN userInit : userInit[i].op = "sub" })

\* onInitAndSettled has run: its callbacks exist beside the vehicle's own
\* callback of the wait stream (user callback 1)
Settled == Len(via) > 1

\* the last host callback ran onInitAndSettled
SettledNow == \E i \in Events("sub") : trace[i].id > 1

(* C22: an FrpVehicle under a monotonic clock has every-frame updates on   *)
(* from Initialise until the first tick whose time exceeds 0.5 s; at that  *)
(* tick the updates are turned off and onInitAndSettled runs, and it runs  *)
(* exactly once whatever ticks and host callbacks follow.                  *)
C22_SettlesOnce ==
    (isVehicle /\ initialised) =>
        /\ Len(via) \in {1, 1 + UserSubs}
        /\ updatingEveryFrame <=> ~Settled
        /\ (\E p \in TickPublishes : trace[p].v > SettleMs) => Settled
        /\ SettledNow =>
              \E p \in TickPublishes :
                  /\ trace[p].v > SettleMs
                  /\ \E a \in Events("activate") :
                        /\ ~trace[a].b
                        /\ p < a
                        /\ \A i \in Events("sub") : trace[i].id > 1 => a < i

\* the vehicle has settled, and two more ticks beyond 0.5 s have been
\* published by later host callbacks
C22_Witness ==
    /\ isVehicle
    /\ Settled
    /\ ~SettledNow
    /\ Callback = "OnControlValueChange"
    /\ Len(TapGot) = 3
    /\ \E p \in TickPublishes : trace[p].v > SettleMs

----------------------------------------------------------------------------
\* the callbacks on the update list that are user callback id itself
InnerSubscriptions(id) ==
    { i \in DOMAIN nexts["update"] :
        nexts["update"][i].k = "user" /\ nexts["update"][i].id = id }

(* C23: bind(f)(s) subscribes anew to f(v) on every value v emitted by s   *)
(* and never removes an earlier inner subscription: after k outer          *)
(* emissions whose f(v) is a stream of the same event source, one publish  *)
(* on that source forwards k values downstream, and the source's list of   *)
(* callbacks has grown by k.                                               *)
C23_BindResubscribes ==
    \A id \in DOMAIN via : via[id] = "bind" =>
        LET k == Len(TapGot)
        IN  /\ Cardinality(InnerSubscriptions(id)) = k
            /\ Len(nexts["update"]) = 1 + k
            /\ \A p \in TickPublishes :
                  LET calls == CallsOf({id}, p, SegEnd(p))
                  IN  /\ Len(calls) = k
                      /\ \A j \in 1..k : calls[j].v = trace[p].v

\* after two outer emissions a tick has been forwarded twice
C23_Witness ==
    \E id \in DOMAIN via :
        /\ via[id] = "bind"
        /\ Len(TapGot) = 2
        /\ \E p \in TickPublishes : Len(CallsOf({id}, p, SegEnd(p))) = 2

====
